---- MODULE Spec2Model ----
(***************************************************************************)
(* Model of the Formstack API wrapper (src/src/index.js): the request      *)
(* helper, the resource methods built on it, the query-string encoder and  *)
(* the date helpers.                                                       *)
(*                                                                         *)
(* JavaScript values are tagged records; JavaScript strings are sequences  *)
(* of one-character strings, so that encoding, pattern matching and        *)
(* parsing are computed character by character.  Numbers are kept in       *)
(* halves (the field h of a number is twice its value), so that a          *)
(* fractional argument such as 0.5 is a value of the model.                *)
(***************************************************************************)
EXTENDS Integers, Sequences, FiniteSets, TLC

(***************************************************************************)
(* JavaScript values                                                       *)
(***************************************************************************)
Undefined == [t |-> "undefined"]
Null == [t |-> "null"]
NaN == [t |-> "NaN"]
Func == [t |-> "function"]
Bool(b) == [t |-> "boolean", b |-> b]
Half(h) == [t |-> "number", h |-> h]
Num(n) == Half(2 * n)
Str(s) == [t |-> "string", s |-> s]
Arr(e) == [t |-> "array", e |-> e]
Obj(f) == [t |-> "object", f |-> f]
\* an Error object: its name (or system error code) and its message
ErrorOf(name, message) == [t |-> "error", name |-> name, message |-> message]

\* typeof v
TypeOf(v) ==
    CASE v.t = "undefined" -> "undefined"
      [] v.t = "null" -> "object"
      [] v.t = "NaN" -> "number"
      [] v.t = "number" -> "number"
      [] v.t = "boolean" -> "boolean"
      [] v.t = "string" -> "string"
      [] v.t = "function" -> "function"
      [] OTHER -> "object"

\* ToBoolean(v): the truthiness used by `v || d`, `if (v)` and `!v`
Truthy(v) ==
    CASE v.t = "undefined" -> FALSE
      [] v.t = "null" -> FALSE
      [] v.t = "NaN" -> FALSE
      [] v.t = "number" -> v.h # 0
      [] v.t = "boolean" -> v.b
      [] v.t = "string" -> Len(v.s) > 0
      [] OTHER -> TRUE

\* a || d
OrDefault(a, d) == IF Truthy(a) THEN a ELSE d

\* v == null (loose): true of null and undefined only
IsNullish(v) == v.t \in {"null", "undefined"}

(***************************************************************************)
(* Characters and number/string conversions                                *)
(***************************************************************************)
DigitChars == <<"0", "1", "2", "3", "4", "5", "6", "7", "8", "9">>
IsDigit(c) == \E i \in 1..10 : DigitChars[i] = c
DigitVal(c) == (CHOOSE i \in 1..10 : DigitChars[i] = c) - 1
IsSpace(c) == c \in {" ", "\t", "\n"}

RECURSIVE NatToStr(_)
NatToStr(n) ==
    IF n < 10 THEN <<DigitChars[n + 1]>>
    ELSE NatToStr(n \div 10) \o <<DigitChars[(n % 10) + 1]>>

\* Number::toString for a number kept in halves
HalfToStr(h) ==
    LET a == IF h < 0 THEN -h ELSE h
        body == NatToStr(a \div 2) \o (IF a % 2 = 1 THEN <<".", "5">> ELSE <<>>)
    IN  IF h < 0 THEN <<"-">> \o body ELSE body

RECURSIVE DigitsToNat(_, _)
DigitsToNat(s, acc) ==
    IF s = <<>> THEN acc ELSE DigitsToNat(Tail(s), 10 * acc + DigitVal(Head(s)))

RECURSIVE TrimLeft(_)
TrimLeft(s) == IF s # <<>> /\ IsSpace(Head(s)) THEN TrimLeft(Tail(s)) ELSE s

RECURSIVE TrimRight(_)
TrimRight(s) ==
    IF s # <<>> /\ IsSpace(s[Len(s)]) THEN TrimRight(SubSeq(s, 1, Len(s) - 1)) ELSE s

AllDigits(s) == s # <<>> /\ \A i \in 1..Len(s) : IsDigit(s[i])

\* StringToNumber for the literals used here: optional sign, decimal digits,
\* optional ".5"; the empty or blank string is 0; anything else is NaN.
StrToNumber(s) ==
    LET u == TrimRight(TrimLeft(s))
        neg == u # <<>> /\ Head(u) = "-"
        w == IF u # <<>> /\ Head(u) \in {"-", "+"} THEN Tail(u) ELSE u
        frac == Len(w) > 2 /\ SubSeq(w, Len(w) - 1, Len(w)) = <<".", "5">>
        ip == IF frac THEN SubSeq(w, 1, Len(w) - 2) ELSE w
        mag == 2 * DigitsToNat(ip, 0) + (IF frac THEN 1 ELSE 0)
    IN  IF u = <<>> THEN Half(0)
        ELSE IF AllDigits(ip) THEN Half(IF neg THEN -mag ELSE mag)
        ELSE NaN

RECURSIVE JoinStr(_, _)
JoinStr(parts, sep) ==
    IF parts = <<>> THEN <<>>
    ELSE IF Len(parts) = 1 THEN parts[1]
    ELSE parts[1] \o sep \o JoinStr(Tail(parts), sep)

ObjectText == <<"[", "o", "b", "j", "e", "c", "t", " ", "O", "b", "j", "e", "c", "t", "]">>

\* ToString(v), as used by string concatenation
RECURSIVE ToStr(_)
ToStr(v) ==
    CASE v.t = "undefined" -> <<"u", "n", "d", "e", "f", "i", "n", "e", "d">>
      [] v.t = "null" -> <<"n", "u", "l", "l">>
      [] v.t = "NaN" -> <<"N", "a", "N">>
      [] v.t = "number" -> HalfToStr(v.h)
      [] v.t = "boolean" -> IF v.b THEN <<"t", "r", "u", "e">> ELSE <<"f", "a", "l", "s", "e">>
      [] v.t = "string" -> v.s
      [] v.t = "array" ->
           JoinStr([i \in 1..Len(v.e) |->
                       IF IsNullish(v.e[i]) THEN <<>> ELSE ToStr(v.e[i])], <<",">>)
      [] OTHER -> ObjectText

\* ToNumber(v)
ToNumber(v) ==
    CASE v.t = "undefined" -> NaN
      [] v.t = "null" -> Half(0)
      [] v.t = "NaN" -> NaN
      [] v.t = "number" -> v
      [] v.t = "boolean" -> IF v.b THEN Half(2) ELSE Half(0)
      [] v.t = "string" -> StrToNumber(v.s)
      [] v.t = "array" -> StrToNumber(ToStr(v))
      [] OTHER -> NaN

\* the global isNaN(v)
isNaN(v) == ToNumber(v).t = "NaN"

\* a > n and a <= n for an integer n (false whenever a converts to NaN)
GreaterThan(a, n) == LET x == ToNumber(a) IN x.t = "number" /\ x.h > 2 * n
AtMost(a, n) == LET x == ToNumber(a) IN x.t = "number" /\ x.h <= 2 * n

\* a == 0 (loose equality with the number 0)
LooseEqZero(a) ==
    CASE a.t \in {"undefined", "null", "NaN", "function", "object", "error"} -> FALSE
      [] OTHER -> LET x == ToNumber(a) IN x.t = "number" /\ x.h = 0

\* a == s (loose equality with a string whose numeric value is NaN)
LooseEqStr(a, s) ==
    CASE a.t = "string" -> a.s = s
      [] a.t = "array" -> ToStr(a) = s
      [] OTHER -> FALSE

(***************************************************************************)
(* Objects: the own enumerable properties of an object, in for-in order    *)
(***************************************************************************)
HasProp(o, k) == o.t = "object" /\ \E i \in 1..Len(o.f) : o.f[i][1] = k

\* o[k] (undefined when o has no such property or is a primitive)
GetProp(o, k) ==
    IF HasProp(o, k)
    THEN o.f[CHOOSE i \in 1..Len(o.f) : o.f[i][1] = k][2]
    ELSE Undefined

\* o[k] = v: an existing property keeps its place, a new one is added last
\* (the keys the methods set are never array indices)
SetProp(o, k, v) ==
    IF HasProp(o, k)
    THEN Obj([i \in 1..Len(o.f) |-> IF o.f[i][1] = k THEN <<k, v>> ELSE o.f[i]])
    ELSE Obj(Append(o.f, <<k, v>>))

\* if (cond) o[k] = v
SetIf(cond, o, k, v) == IF cond THEN SetProp(o, k, v) ELSE o

\* the (key, value) pairs a for-in loop over v visits
ForIn(v) ==
    CASE v.t = "object" -> v.f
      [] v.t = "array" -> [i \in 1..Len(v.e) |-> <<NatToStr(i - 1), v.e[i]>>]
      [] OTHER -> <<>>

(***************************************************************************)
(* encodeURI                                                               *)
(***************************************************************************)
Letters ==
    {"a", "b", "c", "d", "e", "f", "g", "h", "i", "j", "k", "l", "m",
     "n", "o", "p", "q", "r", "s", "t", "u", "v", "w", "x", "y", "z",
     "A", "B", "C", "D", "E", "F", "G", "H", "I", "J", "K", "L", "M",
     "N", "O", "P", "Q", "R", "S", "T", "U", "V", "W", "X", "Y", "Z"}

\* uriReserved, uriMark and "#": left as they are by encodeURI
UriKept == {";", "/", "?", ":", "@", "&", "=", "+", "$", ",", "#",
            "-", "_", ".", "!", "~", "*", "'", "(", ")"}

\* the escapes of the other ASCII characters the model's strings use
UriEscapes ==
    [c \in {" ", "[", "]", "%", "\"", "{", "}", "<", ">"} |->
        CASE c = " " -> <<"%", "2", "0">>
          [] c = "[" -> <<"%", "5", "B">>
          [] c = "]" -> <<"%", "5", "D">>
          [] c = "%" -> <<"%", "2", "5">>
          [] c = "\"" -> <<"%", "2", "2">>
          [] c = "{" -> <<"%", "7", "B">>
          [] c = "}" -> <<"%", "7", "D">>
          [] c = "<" -> <<"%", "3", "C">>
          [] c = ">" -> <<"%", "3", "E">>]

EncodeChar(c) ==
    IF c \in Letters \/ IsDigit(c) \/ c \in UriKept THEN <<c>> ELSE UriEscapes[c]

RECURSIVE encodeURI(_)
encodeURI(s) == IF s = <<>> THEN <<>> ELSE EncodeChar(Head(s)) \o encodeURI(Tail(s))

(***************************************************************************)
(* dataToQueryString (index.js 822-844)                                    *)
(***************************************************************************)
\* the inner loop: item[subItem]=value for every subItem of data[item]
RECURSIVE SubParts(_, _)
SubParts(item, subs) ==
    IF subs = <<>> THEN <<>>
    ELSE <<item \o <<"[">> \o subs[1][1] \o <<"]", "=">> \o ToStr(subs[1][2])>>
         \o SubParts(item, Tail(subs))

\* the outer loop: the queryParts array
RECURSIVE QueryParts(_)
QueryParts(entries) ==
    IF entries = <<>> THEN <<>>
    ELSE LET item == entries[1][1]
             val == entries[1][2]
         IN  (IF TypeOf(val) = "object"
              THEN SubParts(item, ForIn(val))
              ELSE <<item \o <<"=">> \o ToStr(val)>>)
             \o QueryParts(Tail(entries))

\* dataToQueryString encoding the joined string a second time
dataToQueryStringTwice(data) ==
    encodeURI(encodeURI(JoinStr(QueryParts(ForIn(data)), <<"&">>)))

dataToQueryString(data) == encodeURI(JoinStr(QueryParts(ForIn(data)), <<"&">>))

(***************************************************************************)
(* State                                                                   *)
(***************************************************************************)
VARIABLES
    tzOffset,      \* host: minutes the local time zone is ahead of UTC
    pc,            \* where the one call of a behaviour stands
    call,          \* the call: method, arguments as the method left them
    opened,        \* https.request calls made
    sent,          \* options and body of the request opened, or Null
    res,           \* the response object the transport handed over, or Null
    emitted,       \* the error the transport emitted on the request, or Null
    wire,          \* response body lexemes the transport has not delivered yet
    str,           \* the 'data' handler's buffer
    reqResults,    \* (data, err) pairs passed to request's callback argument
    results,       \* (data, err) pairs passed to the caller's callback
    logged,        \* (data, err) pairs written to the console instead
    failure        \* Null, or the error thrown and where it surfaced

vars == <<tzOffset, pc, call, opened, sent, res, emitted, wire, str,
          reqResults, results, logged, failure>>

(***************************************************************************)
(* Date.parse, strtotime (index.js 855-863), testDateFormat (875-878)      *)
(***************************************************************************)
\* the number of digits of s starting at position i
RECURSIVE DigitRun(_, _)
DigitRun(s, i) == IF i <= Len(s) /\ IsDigit(s[i]) THEN 1 + DigitRun(s, i + 1) ELSE 0

CharAt(s, i) == IF i >= 1 /\ i <= Len(s) THEN s[i] ELSE ""

Field(s, i, n) == IF n >= 1 THEN DigitsToNat(SubSeq(s, i, i + n - 1), 0) ELSE 0

\* days from 1970-01-01 to the civil date y-m-d (a day past the month's end
\* runs on into the next month)
DaysFromCivil(y, m, d) ==
    LET yy == IF m <= 2 THEN y - 1 ELSE y
        era == yy \div 400
        yoe == yy - era * 400
        mp == IF m > 2 THEN m - 3 ELSE m + 9
        doy == (153 * mp + 2) \div 5 + d - 1
        doe == yoe * 365 + yoe \div 4 - yoe \div 100 + doy
    IN  era * 146097 + doe - 719468

\* Date.parse, as Node's engine computes it, of the forms
\* Y<sep>M<sep>D<space or T>h:m:s[Z]: a string ending in Z is UTC, any
\* other is local time; a field out of range answers NaN, and so does any
\* string of another shape.
DateParse(s) ==
    LET n1 == DigitRun(s, 1)
        p1 == 1 + n1
        n2 == DigitRun(s, p1 + 1)
        p2 == p1 + 1 + n2
        n3 == DigitRun(s, p2 + 1)
        p3 == p2 + 1 + n3
        n4 == DigitRun(s, p3 + 1)
        p4 == p3 + 1 + n4
        n5 == DigitRun(s, p4 + 1)
        p5 == p4 + 1 + n5
        n6 == DigitRun(s, p5 + 1)
        p6 == p5 + 1 + n6
        zulu == p6 = Len(s) /\ CharAt(s, p6) = "Z"
        shaped == /\ n1 = 4 /\ n2 \in 1..2 /\ n3 \in 1..2
                  /\ n4 \in 1..2 /\ n5 \in 1..2 /\ n6 \in 1..2
                  /\ CharAt(s, p1) \in {"-", "/"} /\ CharAt(s, p2) = CharAt(s, p1)
                  /\ CharAt(s, p3) \in {" ", "T"}
                  /\ CharAt(s, p4) = ":" /\ CharAt(s, p5) = ":"
                  /\ (p6 = Len(s) + 1 \/ zulu)
        sound == CharAt(s, p3) = " " \/ (CharAt(s, p1) = "-" /\ n2 = 2 /\ n3 = 2)
        y == Field(s, 1, n1)
        mo == Field(s, p1 + 1, n2)
        d == Field(s, p2 + 1, n3)
        h == Field(s, p3 + 1, n4)
        mi == Field(s, p4 + 1, n5)
        sec == Field(s, p5 + 1, n6)
        ranged == mo \in 1..12 /\ d \in 1..31 /\ h \in 0..23 /\ mi \in 0..59 /\ sec \in 0..59
        wall == DaysFromCivil(y, mo, d) * 86400 + h * 3600 + mi * 60 + sec
        utc == IF zulu THEN wall ELSE wall - tzOffset * 60
    IN  IF shaped /\ sound /\ ranged
        THEN Half(2 * 1000 * utc)
        ELSE NaN

\* strtotime that also turns the epoch itself away (ts <= 0)
strtotimeAfterEpoch(dateString) ==
    LET ts == DateParse(ToStr(dateString))
    IN  IF ts.t = "NaN" \/ ts.h <= 0 THEN Null ELSE Half(ts.h \div 1000)

\* strtotime(dateString)
strtotime(dateString) ==
    LET ts == DateParse(ToStr(dateString))
    IN  IF ts.t = "NaN" \/ ts.h < 0 THEN Null ELSE Half(ts.h \div 1000)

\* a regular expression as a sequence of items: a character class and how
\* many times it may repeat; the match is anchored at both ends
InClass(c, cls) ==
    CASE cls = "\\d" -> IsDigit(c)
      [] cls = "\\s" -> IsSpace(c)
      [] OTHER -> c = cls

RECURSIVE RegexMatch(_, _)
RegexMatch(pat, s) ==
    IF pat = <<>> THEN s = <<>>
    ELSE \E n \in pat[1].min..pat[1].max :
            /\ n <= Len(s)
            /\ \A i \in 1..n : InClass(s[i], pat[1].cls)
            /\ RegexMatch(Tail(pat), SubSeq(s, n + 1, Len(s)))

Rep(cls, min, max) == [cls |-> cls, min |-> min, max |-> max]

\* /^\d{4}-\d{1,2}-\d{1,2}\s\d{1,2}:\d{1,2}:\d{1,2}$/
formatExp ==
    <<Rep("\\d", 4, 4), Rep("-", 1, 1), Rep("\\d", 1, 2), Rep("-", 1, 1),
      Rep("\\d", 1, 2), Rep("\\s", 1, 1), Rep("\\d", 1, 2), Rep(":", 1, 1),
      Rep("\\d", 1, 2), Rep(":", 1, 1), Rep("\\d", 1, 2)>>

\* testDateFormat with a pattern that matches every string
testDateFormatAny(timeString) == Arr(<<timeString>>)

\* testDateFormat(timeString): the match array, or null
testDateFormat(timeString) ==
    IF RegexMatch(formatExp, timeString.s) THEN Arr(<<timeString>>) ELSE Null

(***************************************************************************)
(* JSON.parse over the lexemes of a response body                          *)
(***************************************************************************)
Q(s) == "\"" \o s \o "\""

\* the scalar lexemes and the values they denote
LexValue ==
    [l \in {"null", "true", "0", Q("status"), Q("error"), Q("ok"),
            Q("message"), Q("x"), Q("forms"), Q("id")} |->
        CASE l = "null" -> Null
          [] l = "true" -> Bool(TRUE)
          [] l = "0" -> Num(0)
          [] l = Q("status") -> Str(<<"s", "t", "a", "t", "u", "s">>)
          [] l = Q("error") -> Str(<<"e", "r", "r", "o", "r">>)
          [] l = Q("ok") -> Str(<<"o", "k">>)
          [] l = Q("message") -> Str(<<"m", "e", "s", "s", "a", "g", "e">>)
          [] l = Q("x") -> Str(<<"x">>)
          [] l = Q("forms") -> Str(<<"f", "o", "r", "m", "s">>)
          [] l = Q("id") -> Str(<<"i", "d">>)]

IsScalarLexeme(l) == l \in DOMAIN LexValue
IsStringLexeme(l) == IsScalarLexeme(l) /\ LexValue[l].t = "string"
Lex(toks, i) == IF i >= 1 /\ i <= Len(toks) THEN toks[i] ELSE "<eof>"
Bad == [ok |-> FALSE, val |-> Undefined, next |-> 0]
Good(v, n) == [ok |-> TRUE, val |-> v, next |-> n]

RECURSIVE ParseValue(_, _)
RECURSIVE ParseElements(_, _, _)
RECURSIVE ParseMembers(_, _, _)

\* elements of an array after "[" or ",": value ("," value)* "]"
ParseElements(toks, i, acc) ==
    LET e == ParseValue(toks, i)
    IN  IF ~e.ok THEN Bad
        ELSE IF Lex(toks, e.next) = "]" THEN Good(Arr(Append(acc, e.val)), e.next + 1)
        ELSE IF Lex(toks, e.next) = "," THEN ParseElements(toks, e.next + 1, Append(acc, e.val))
        ELSE Bad

\* members of an object after "{" or ",": string ":" value ("," ...)* "}"
ParseMembers(toks, i, acc) ==
    IF ~(IsStringLexeme(Lex(toks, i)) /\ Lex(toks, i + 1) = ":") THEN Bad
    ELSE LET k == LexValue[toks[i]].s
             m == ParseValue(toks, i + 2)
             o == IF m.ok THEN SetProp(acc, k, m.val) ELSE acc
         IN  IF ~m.ok THEN Bad
             ELSE IF Lex(toks, m.next) = "}" THEN Good(o, m.next + 1)
             ELSE IF Lex(toks, m.next) = "," THEN ParseMembers(toks, m.next + 1, o)
             ELSE Bad

ParseValue(toks, i) ==
    LET l == Lex(toks, i)
    IN  IF IsScalarLexeme(l) THEN Good(LexValue[l], i + 1)
        ELSE IF l = "[" THEN
            (IF Lex(toks, i + 1) = "]" THEN Good(Arr(<<>>), i + 2)
             ELSE ParseElements(toks, i + 1, <<>>))
        ELSE IF l = "{" THEN
            (IF Lex(toks, i + 1) = "}" THEN Good(Obj(<<>>), i + 2)
             ELSE ParseMembers(toks, i + 1, Obj(<<>>)))
        ELSE Bad

\* JSON.parse(text): ok with the value, or not ok (a SyntaxError is thrown)
JSONParse(toks) ==
    LET r == ParseValue(toks, 1)
    IN  IF r.ok /\ r.next = Len(toks) + 1 THEN r ELSE Bad

(***************************************************************************)
(* The client (index.js 52-76) and request (index.js 98-162)               *)
(***************************************************************************)
FsAPI(accessToken, host, port, path) ==
    [accessToken |-> accessToken,
     apiPort |-> OrDefault(port, Num(443)),
     apiHost |-> OrDefault(host, Str(<<"w", "w", "w", ".", "f", "o", "r", "m", "s", "t", "a", "c", "k", ".", "c", "o", "m">>)),
     apiPath |-> OrDefault(path, Str(<<"/", "a", "p", "i", "/", "v", "2", "/">>))]

this == FsAPI(Str(<<"t", "o", "k">>), Undefined, Undefined, Undefined)

LowerCase == <<"a", "b", "c", "d", "e", "f", "g", "h", "i", "j", "k", "l", "m",
               "n", "o", "p", "q", "r", "s", "t", "u", "v", "w", "x", "y", "z">>
UpperCase == <<"A", "B", "C", "D", "E", "F", "G", "H", "I", "J", "K", "L", "M",
               "N", "O", "P", "Q", "R", "S", "T", "U", "V", "W", "X", "Y", "Z">>

UpperChar(c) ==
    IF \E i \in 1..26 : LowerCase[i] = c
    THEN UpperCase[CHOOSE i \in 1..26 : LowerCase[i] = c]
    ELSE c

\* String.prototype.toUpperCase
toUpperCase(s) == [i \in 1..Len(s) |-> UpperChar(s[i])]

GET == <<"G", "E", "T">>
PUT == <<"P", "U", "T">>
POST == <<"P", "O", "S", "T">>
DELETE == <<"D", "E", "L", "E", "T", "E">>
BEARER == <<"B", "e", "a", "r", "e", "r", " ">>

validVerbs == <<GET, PUT, POST, DELETE>>

InList(list, v) == \E i \in 1..Len(list) : list[i] = v

Throws(error, message) == [throws |-> TRUE, error |-> error, message |-> message]

\* index.js 118-136, 154-157: the options and the body of the request that
\* https.request opens, req.write sends and req.end finishes
OpenRequest(endpoint, verb, args) ==
    LET postData == IF Truthy(args) THEN Str(dataToQueryString(args)) ELSE Null
        headers == [Authorization |-> BEARER \o ToStr(this.accessToken),
                    ContentLength |-> IF Truthy(postData) THEN Num(Len(postData.s))
                                      ELSE Undefined]
        options == [hostname |-> this.apiHost,
                    port |-> this.apiPort,
                    path |-> ToStr(this.apiPath) \o ToStr(endpoint),
                    method |-> verb,
                    headers |-> headers]
    IN  [throws |-> FALSE,
         options |-> options,
         written |-> IF Truthy(postData) THEN postData ELSE Null,
         args |-> args]

\* request with the verb taken as given: the check against validVerbs left out
requestAnyVerb(endpoint, verb, args, callback) ==
    IF ~Truthy(endpoint)
    THEN Throws("Error", "You must include an enpoint to request")
    ELSE IF TypeOf(callback) # "function"
    THEN Throws("Error", "You must provide a callback function")
    ELSE OpenRequest(endpoint, ToStr(OrDefault(verb, Str(GET))), OrDefault(args, Null))

\* request(endpoint, verb, args, callback) up to and including req.end():
\* either it throws, or it has opened one HTTPS request and registered
\* callback for the response events.
request(endpoint, verb, args, callback) ==
    LET verb1 == OrDefault(verb, Str(GET))
        args1 == OrDefault(args, Null)
    IN  IF ~Truthy(endpoint)
        THEN Throws("Error", "You must include an enpoint to request")
        ELSE IF TypeOf(callback) # "function"
        THEN Throws("Error", "You must provide a callback function")
        ELSE IF verb1.t # "string"
        THEN Throws("TypeError", "verb.toUpperCase is not a function")
        ELSE IF ~InList(validVerbs, toUpperCase(verb1.s))
        THEN Throws("Error", "Your requests must be performed with one of the following verbs")
        ELSE OpenRequest(endpoint, toUpperCase(verb1.s), args1)

(***************************************************************************)
(* The callbacks the resource methods hand to request                      *)
(***************************************************************************)
STATUS_FAILED == <<"R", "e", "q", "u", "e", "s", "t", " ", "f", "a", "i", "l", "e", "d", " ", "w", "i", "t", "h", " ", "s", "t", "a", "t", "u", "s", " ", "c", "o", "d", "e", ":", " ">>
ERROR == <<"e", "r", "r", "o", "r">>
STATUS == <<"s", "t", "a", "t", "u", "s">>
FORMS == <<"f", "o", "r", "m", "s">>

\* data.forms: reading a property of null or undefined throws a TypeError
ReadsForms(data) == ~IsNullish(data)

\* What the callback that `method` handed to request does with (data, err):
\* the pairs it passes to the caller's callback, the pairs it logs, and
\* whether it throws.  For request itself the callback is the caller's.
OnResult(method, callback, data, err) ==
    LET isError == Truthy(data) /\ LooseEqStr(GetProp(data, STATUS), ERROR)
        err1 == IF isError THEN data ELSE err
        data1 == IF isError THEN Null ELSE data
        out == IF method = "getForms" THEN GetProp(data1, FORMS) ELSE data1
        quiet == [threw |-> FALSE, passed |-> <<>>, logged |-> <<>>]
    IN  IF method = "request"
        THEN [quiet EXCEPT !.passed = <<<<data, err>>>>]
        ELSE IF method = "getForms" /\ ~ReadsForms(data1)
        THEN [quiet EXCEPT !.threw = TRUE]
        ELSE IF Truthy(callback)
        THEN [quiet EXCEPT !.passed = <<<<out, err1>>>>]
        ELSE [quiet EXCEPT !.logged = <<<<out, err1>>>>]

(***************************************************************************)
(* Resource methods up to the request they open                            *)
(***************************************************************************)
\* args = args || {}; args.name
Arg(args, name) == GetProp(OrDefault(args, Obj(<<>>)), name)

\* v.length
LengthOf(v) ==
    CASE v.t = "array" -> Num(Len(v.e))
      [] v.t = "string" -> Num(Len(v.s))
      [] OTHER -> Undefined

\* getForms that asks for the flat list whatever folderOrganized says
getFormsFlat(args, callback) ==
    request(Str(<<"f", "o", "r", "m", ".", "j", "s", "o", "n">>), Str(GET), Obj(<< <<<<"f", "o", "l", "d", "e", "r", "s">>, Num(0)>> >>), Func)

\* getForms (index.js 177-201)
getForms(args, callback) ==
    LET folderOrganized == OrDefault(Arg(args, <<"f", "o", "l", "d", "e", "r", "O", "r", "g", "a", "n", "i", "z", "e", "d">>), Bool(FALSE))
        params == Obj(<< <<<<"f", "o", "l", "d", "e", "r", "s">>, IF Truthy(folderOrganized) THEN Num(1) ELSE Num(0)>> >>)
    IN  request(Str(<<"f", "o", "r", "m", ".", "j", "s", "o", "n">>), Str(GET), params, Func)

IdError(what) == Throws("Error", what \o " ID is required and must be numeric")

\* getFormDetails (index.js 214-235)
getFormDetails(formId, callback) ==
    IF isNaN(formId) THEN IdError("Form")
    ELSE request(Str(<<"f", "o", "r", "m", "/">> \o ToStr(formId)), Str(GET), Null, Func)

\* copyForm (index.js 248-269)
copyForm(formId, callback) ==
    IF isNaN(formId) THEN IdError("Form")
    ELSE request(Str(<<"f", "o", "r", "m", "/">> \o ToStr(formId) \o <<"/", "c", "o", "p", "y">>), Str(POST), Obj(<<>>), Func)

\* the loop of getSubmissions over searchFieldIds (index.js 369-379)
RECURSIVE SearchFields(_, _, _, _)
SearchFields(params, ids, values, index) ==
    IF index >= Len(ids) THEN [throws |-> FALSE, params |-> params]
    ELSE IF isNaN(ids[index + 1]) THEN Throws("Error", "Field IDs must be numeric!")
    ELSE LET key == <<"s", "e", "a", "r", "c", "h", "_", "f", "i", "e", "l", "d", "_">> \o NatToStr(index)
             value == IF index + 1 <= Len(values) THEN values[index + 1] ELSE Undefined
         IN  SearchFields(SetProp(SetProp(params, key, ids[index + 1]), key, value),
                          ids, values, index + 1)

\* getSubmissions (index.js 297-396)
getSubmissions(formId, args, callback) ==
    LET encryptionPassword == OrDefault(Arg(args, <<"e", "n", "c", "r", "y", "p", "t", "i", "o", "n", "P", "a", "s", "s", "w", "o", "r", "d">>), Null)
        minTime == OrDefault(Arg(args, <<"m", "i", "n", "T", "i", "m", "e">>), Null)
        maxTime == OrDefault(Arg(args, <<"m", "a", "x", "T", "i", "m", "e">>), Null)
        searchFieldIds == OrDefault(Arg(args, <<"s", "e", "a", "r", "c", "h", "F", "i", "e", "l", "d", "I", "d", "s">>), Arr(<<>>))
        searchFieldValues == OrDefault(Arg(args, <<"s", "e", "a", "r", "c", "h", "F", "i", "e", "l", "d", "V", "a", "l", "u", "e", "s">>), Arr(<<>>))
        pageNumber == OrDefault(Arg(args, <<"p", "a", "g", "e", "N", "u", "m", "b", "e", "r">>), Num(1))
        perPage0 == Arg(args, <<"p", "e", "r", "P", "a", "g", "e">>)
        perPage == IF Truthy(perPage0) \/ LooseEqZero(perPage0) THEN perPage0 ELSE Num(25)
        sort0 == OrDefault(Arg(args, <<"s", "o", "r", "t">>), Str(<<"D", "E", "S", "C">>))
        sort == Str(toUpperCase(sort0.s))
        data == OrDefault(Arg(args, <<"d", "a", "t", "a">>), Bool(FALSE))
        expandData == OrDefault(Arg(args, <<"e", "x", "p", "a", "n", "d", "D", "a", "t", "a">>), Bool(FALSE))
        p1 == SetIf(Truthy(encryptionPassword), Obj(<<>>), <<"e", "n", "c", "r", "y", "p", "t", "i", "o", "n", "_", "p", "a", "s", "s", "w", "o", "r", "d">>, encryptionPassword)
        p2 == SetIf(Truthy(minTime), p1, <<"m", "i", "n", "_", "t", "i", "m", "e">>, minTime)
        p3 == SetIf(Truthy(maxTime), p2, <<"m", "a", "x", "_", "t", "i", "m", "e">>, maxTime)
        p4 == SetIf(Truthy(pageNumber), p3, <<"p", "a", "g", "e">>, pageNumber)
        p5 == SetIf(Truthy(perPage), p4, <<"p", "e", "r", "_", "p", "a", "g", "e">>, perPage)
        p6 == SetIf(Truthy(sort), p5, <<"s", "o", "r", "t">>, sort)
        p7 == SetIf(Truthy(data), p6, <<"d", "a", "t", "a">>, data)
        p8 == SetIf(Truthy(expandData), p7, <<"e", "x", "p", "a", "n", "d", "_", "d", "a", "t", "a">>, expandData)
        looped == SearchFields(p8, searchFieldIds.e, searchFieldValues.e, 0)
    IN  IF isNaN(formId) THEN IdError("Form")
        ELSE IF sort0.t # "string"
        THEN Throws("TypeError", "args.sort.toUpperCase is not a function")
        ELSE IF ~IsNullish(minTime) /\ IsNullish(strtotime(minTime))
        THEN Throws("Error", "Invalid value for minTime")
        ELSE IF ~IsNullish(maxTime) /\ IsNullish(strtotime(maxTime))
        THEN Throws("Error", "Invalid value for maxTime")
        ELSE IF LengthOf(searchFieldIds) # LengthOf(searchFieldValues)
        THEN Throws("Error", "You must have a one to one relationship between Field ids and Field values")
        ELSE IF isNaN(pageNumber)
        THEN Throws("Error", "The pageNumber value must be numeric")
        ELSE IF isNaN(perPage)
        THEN Throws("Error", "The perPage value must be numeric")
        ELSE IF GreaterThan(perPage, 100) \/ AtMost(perPage, 0)
        THEN Throws("Error", "You can only retrieve a minimum of 1 and maximum of 100 Submissions per request")
        ELSE IF ~InList(<<<<"A", "S", "C">>, <<"D", "E", "S", "C">>>>, sort.s)
        THEN Throws("Error", "The sort parameter must be ASC or DESC")
        ELSE IF looped.throws THEN looped
        ELSE request(Str(<<"f", "o", "r", "m", "/">> \o ToStr(formId) \o <<"/", "s", "u", "b", "m", "i", "s", "s", "i", "o", "n", ".", "j", "s", "o", "n">>),
                     Str(GET), looped.params, Func)

\* the loop of submitForm and editSubmissionData over fieldIds
\* (index.js 458-467, 591-600)
RECURSIVE FieldParams(_, _, _, _)
FieldParams(params, ids, values, index) ==
    IF index >= Len(ids) THEN [throws |-> FALSE, params |-> params]
    ELSE IF isNaN(ids[index + 1]) THEN Throws("Error", "Field IDs must be numeric!")
    ELSE LET value == IF index + 1 <= Len(values) THEN values[index + 1] ELSE Undefined
         IN  FieldParams(SetProp(params, <<"f", "i", "e", "l", "d", "_">> \o ToStr(ids[index + 1]), value),
                         ids, values, index + 1)

\* the argument handling submitForm (index.js 424-467) and editSubmissionData
\* (index.js 557-600) share line for line: defaults, checks, params
SubmissionParams(args) ==
    LET fieldIds == OrDefault(Arg(args, <<"f", "i", "e", "l", "d", "I", "d", "s">>), Arr(<<>>))
        fieldValues == OrDefault(Arg(args, <<"f", "i", "e", "l", "d", "V", "a", "l", "u", "e", "s">>), Arr(<<>>))
        timestamp == OrDefault(Arg(args, <<"t", "i", "m", "e", "s", "t", "a", "m", "p">>), Null)
        userAgent == OrDefault(Arg(args, <<"u", "s", "e", "r", "A", "g", "e", "n", "t">>), Null)
        ipAddress == OrDefault(Arg(args, <<"i", "p", "A", "d", "d", "r", "e", "s", "s">>), Null)
        paymentStatus == OrDefault(Arg(args, <<"p", "a", "y", "m", "e", "n", "t", "S", "t", "a", "t", "u", "s">>), Null)
        read == OrDefault(Arg(args, <<"r", "e", "a", "d">>), Bool(FALSE))
        p1 == SetIf(Truthy(timestamp), Obj(<<>>), <<"t", "i", "m", "e", "s", "t", "a", "m", "p">>, timestamp)
        p2 == SetIf(Truthy(userAgent), p1, <<"u", "s", "e", "r", "_", "a", "g", "e", "n", "t">>, userAgent)
        p3 == SetIf(Truthy(ipAddress), p2, <<"r", "e", "m", "o", "t", "e", "_", "a", "d", "d", "r">>, ipAddress)
        p4 == SetIf(Truthy(paymentStatus), p3, <<"p", "a", "y", "m", "e", "n", "t", "_", "s", "t", "a", "t", "u", "s">>, paymentStatus)
        p5 == SetIf(Truthy(read), p4, <<"r", "e", "a", "d">>, IF Truthy(read) THEN Num(1) ELSE Num(0))
    IN  IF LengthOf(fieldIds) # LengthOf(fieldValues)
        THEN Throws("Error", "You must have a one to one relationship between Field ids and Field values")
        ELSE IF ~IsNullish(timestamp)
                /\ (IsNullish(strtotime(timestamp)) \/ IsNullish(testDateFormat(timestamp)))
        THEN Throws("Error", "Invalid value for timestamp")
        ELSE FieldParams(p5, fieldIds.e, fieldValues.e, 0)

\* submitForm (index.js 418-484)
submitForm(formId, args, callback) ==
    LET built == SubmissionParams(args)
    IN  IF isNaN(formId) THEN IdError("Form")
        ELSE IF built.throws THEN built
        ELSE request(Str(<<"f", "o", "r", "m", "/">> \o ToStr(formId) \o <<"/", "s", "u", "b", "m", "i", "s", "s", "i", "o", "n", ".", "j", "s", "o", "n">>),
                     Str(POST), built.params, Func)

\* getSubmissionDetails (index.js 500-529)
getSubmissionDetails(submissionId, args, callback) ==
    LET encryptionPassword == OrDefault(Arg(args, <<"e", "n", "c", "r", "y", "p", "t", "i", "o", "n", "P", "a", "s", "s", "w", "o", "r", "d">>), Null)
        params == SetIf(Truthy(encryptionPassword), Obj(<<>>),
                        <<"e", "n", "c", "r", "y", "p", "t", "i", "o", "n", "_", "p", "a", "s", "s", "w", "o", "r", "d">>, encryptionPassword)
    IN  IF isNaN(submissionId) THEN IdError("Submission")
        ELSE request(Str(<<"s", "u", "b", "m", "i", "s", "s", "i", "o", "n", "/">> \o ToStr(submissionId) \o <<".", "j", "s", "o", "n">>),
                     Str(GET), params, Func)

\* editSubmissionData (index.js 551-617)
editSubmissionData(submissionId, args, callback) ==
    LET built == SubmissionParams(args)
    IN  IF isNaN(submissionId) THEN IdError("Submission")
        ELSE IF built.throws THEN built
        ELSE request(Str(<<"s", "u", "b", "m", "i", "s", "s", "i", "o", "n", "/">> \o ToStr(submissionId) \o <<".", "j", "s", "o", "n">>),
                     Str(PUT), built.params, Func)

\* deleteSubmission (index.js 630-651)
deleteSubmission(submissionId, callback) ==
    IF isNaN(submissionId) THEN IdError("Submission")
    ELSE request(Str(<<"s", "u", "b", "m", "i", "s", "s", "i", "o", "n", "/">> \o ToStr(submissionId) \o <<".", "j", "s", "o", "n">>),
                 Str(DELETE), Obj(<<>>), Func)

validFieldTypes ==
    <<<<"t", "e", "x", "t">>, <<"t", "e", "x", "t", "a", "r", "e", "a">>, <<"n", "a", "m", "e">>, <<"a", "d", "d", "r", "e", "s", "s">>, <<"e", "m", "a", "i", "l">>, <<"p", "h", "o", "n", "e">>,
      <<"c", "r", "e", "d", "i", "t", "c", "a", "r", "d">>, <<"d", "a", "t", "e", "t", "i", "m", "e">>, <<"f", "i", "l", "e">>, <<"n", "u", "m", "b", "e", "r">>, <<"s", "e", "l", "e", "c", "t">>, <<"r", "a", "d", "i", "o">>,
      <<"c", "h", "e", "c", "k", "b", "o", "x">>, <<"m", "a", "t", "r", "i", "x">>, <<"r", "i", "c", "h", "t", "e", "x", "t">>, <<"e", "m", "b", "e", "d">>, <<"p", "r", "o", "d", "u", "c", "t">>, <<"s", "e", "c", "t", "i", "o", "n">>>>

\* createField (index.js 681-769)
createField(formId, args, callback) ==
    LET fieldType == OrDefault(Arg(args, <<"f", "i", "e", "l", "d", "T", "y", "p", "e">>), Null)
        label == OrDefault(Arg(args, <<"l", "a", "b", "e", "l">>), Null)
        hideLabel == OrDefault(Arg(args, <<"h", "i", "d", "e", "L", "a", "b", "e", "l">>), Bool(FALSE))
        description == OrDefault(Arg(args, <<"d", "e", "s", "c", "r", "i", "p", "t", "i", "o", "n">>), Null)
        useCallout == OrDefault(Arg(args, <<"u", "s", "e", "C", "a", "l", "l", "o", "u", "t">>), Bool(FALSE))
        fieldSpecificAttributes == OrDefault(Arg(args, <<"f", "i", "e", "l", "d", "S", "p", "e", "c", "i", "f", "i", "c", "A", "t", "t", "r", "i", "b", "u", "t", "e", "s">>), Null)
        defaultValue == OrDefault(Arg(args, <<"d", "e", "f", "a", "u", "l", "t", "V", "a", "l", "u", "e">>), Null)
        options == OrDefault(Arg(args, <<"o", "p", "t", "i", "o", "n", "s">>), Null)
        optionsValues == OrDefault(Arg(args, <<"o", "p", "t", "i", "o", "n", "s", "V", "a", "l", "u", "e", "s">>), Null)
        required == OrDefault(Arg(args, <<"r", "e", "q", "u", "i", "r", "e", "d">>), Bool(FALSE))
        readOnly == OrDefault(Arg(args, <<"r", "e", "a", "d", "O", "n", "l", "y">>), Bool(FALSE))
        hidden == OrDefault(Arg(args, <<"h", "i", "d", "d", "e", "n">>), Bool(FALSE))
        unique == OrDefault(Arg(args, <<"u", "n", "i", "q", "u", "e">>), Bool(FALSE))
        columnSpan == OrDefault(Arg(args, <<"c", "o", "l", "u", "m", "n", "S", "p", "a", "n">>), Null)
        sort == OrDefault(Arg(args, <<"s", "o", "r", "t">>), Null)
        p0 == Obj(<< <<<<"f", "i", "e", "l", "d", "_", "t", "y", "p", "e">>, fieldType>> >>)
        p1 == SetIf(Truthy(label), p0, <<"l", "a", "b", "e", "l">>, label)
        p2 == SetIf(Truthy(hideLabel), p1, <<"h", "i", "d", "e", "_", "l", "a", "b", "e", "l">>, hideLabel)
        p3 == SetIf(Truthy(description), p2, <<"d", "e", "s", "c", "r", "i", "p", "t", "i", "o", "n">>, description)
        p4 == SetIf(Truthy(useCallout), p3, <<"d", "e", "s", "c", "r", "i", "p", "t", "i", "o", "n", "_", "c", "a", "l", "l", "o", "u", "t">>, Num(1))
        p5 == SetIf(Truthy(fieldSpecificAttributes), p4, <<"a", "t", "t", "r", "i", "b", "u", "t", "e", "s">>, fieldSpecificAttributes)
        p6 == SetIf(Truthy(defaultValue), p5, <<"d", "e", "f", "a", "u", "l", "t", "_", "v", "a", "l", "u", "e">>, defaultValue)
        p7 == SetIf(Truthy(options), p6, <<"o", "p", "t", "i", "o", "n", "s">>, options)
        p8 == SetIf(Truthy(optionsValues), p7, <<"o", "p", "t", "i", "o", "n", "s", "_", "v", "a", "l", "u", "e", "s">>, optionsValues)
        p9 == SetIf(Truthy(required), p8, <<"r", "e", "q", "u", "i", "r", "e", "d">>, Num(1))
        p10 == SetIf(Truthy(readOnly), p9, <<"r", "e", "a", "d", "o", "n", "l", "y">>, Num(1))
        p11 == SetIf(Truthy(hidden), p10, <<"h", "i", "d", "d", "e", "n">>, Num(1))
        p12 == SetIf(Truthy(unique), p11, <<"u", "n", "i", "q", "u", "e">>, Num(1))
        p13 == SetIf(Truthy(columnSpan), p12, <<"c", "o", "l", "s", "p", "a", "n">>, columnSpan)
        p14 == SetIf(Truthy(sort), p13, <<"s", "o", "r", "t">>, sort)
    IN  IF isNaN(formId) THEN IdError("Form")
        ELSE IF fieldType.t # "string" \/ ~InList(validFieldTypes, fieldType.s)
        THEN Throws("Error", "Provided Field Type is not in the list of known Field types")
        ELSE request(Str(<<"f", "o", "r", "m", "/">> \o ToStr(formId) \o <<"/", "f", "i", "e", "l", "d">>), Str(POST), p14, Func)

\* getFields (index.js 782-805)
getFields(formId, callback) ==
    IF isNaN(formId) THEN IdError("Form")
    ELSE request(Str(<<"f", "o", "r", "m", "/">> \o ToStr(formId) \o <<"/", "f", "i", "e", "l", "d">>), Str(GET), Null, Func)

(***************************************************************************)
(* Inputs                                                                  *)
(***************************************************************************)
\* the largest number of lexemes one 'data' event delivers
MaxChunk == 3

TimeZones == {-300, 0, 60}

Callbacks == {Func, Undefined}

O1(k, v) == Obj(<< <<k, v>> >>)
O2(k1, v1, k2, v2) == Obj(<< <<k1, v1>>, <<k2, v2>> >>)
O3(k1, v1, k2, v2, k3, v3) == Obj(<< <<k1, v1>>, <<k2, v2>>, <<k3, v3>> >>)

Ids == {Num(1), Str(<<"1", "2">>), Str(<<"a", "b", "c">>), Str(<<>>), Undefined, Null}

T_CANON == Str(<<"1", "9", "7", "0", "-", "0", "1", "-", "0", "2", " ", "0", "9", ":", "0", "0", ":", "0", "0">>)
T_SHORT == Str(<<"1", "9", "7", "0", "-", "1", "-", "2", " ", "9", ":", "0", ":", "0">>)
T_SLASH == Str(<<"1", "9", "7", "0", "/", "0", "1", "/", "0", "2", " ", "0", "9", ":", "0", "0", ":", "0", "0">>)
T_ISO == Str(<<"1", "9", "7", "0", "-", "0", "1", "-", "0", "2", "T", "0", "9", ":", "0", "0", ":", "0", "0", "Z">>)
T_EPOCH == Str(<<"1", "9", "7", "0", "-", "0", "1", "-", "0", "1", " ", "0", "0", ":", "0", "0", ":", "0", "0">>)
T_BEFORE == Str(<<"1", "9", "6", "9", "-", "1", "2", "-", "3", "1", " ", "2", "3", ":", "5", "9", ":", "5", "9">>)
T_MONTH13 == Str(<<"1", "9", "7", "0", "-", "1", "3", "-", "0", "2", " ", "0", "9", ":", "0", "0", ":", "0", "0">>)
T_TEXT == Str(<<"s", "o", "o", "n">>)

Times == {T_CANON, T_SHORT, T_SLASH, T_ISO, T_EPOCH, T_BEFORE, T_MONTH13, T_TEXT}

Endpoints == {Str(<<"f", "o", "r", "m", ".", "j", "s", "o", "n">>), Str(<<>>), Undefined}

Verbs == {Undefined, Str(GET), Str(<<"g", "e", "t">>), Str(<<"P", "o", "s", "t">>), Str(<<"p", "u", "t">>),
          Str(<<"D", "e", "l", "e", "t", "e">>), Str(<<"P", "A", "T", "C", "H">>), Num(5)}

RequestArgs ==
    {Undefined, Null, Obj(<<>>),
     O3(<<"a">>, Str(<<"x", " ", "y">>), <<"n">>, Half(1), <<"b">>, Bool(TRUE)),
     O2(<<"f">>, O2(<<"k">>, Str(<<"v", "&", "w">>), <<"j">>, Num(1)), <<"q">>, Str(<<"1", "0", "0", "%">>)),
     O2(<<"o">>, Arr(<<Str(<<"a">>), Str(<<"b", "=", "c">>)>>), <<"z">>, Num(0))}

RequestCallbacks == {Func, Undefined, Str(<<"c", "b">>)}

GetFormsArgs ==
    {Undefined, Obj(<<>>), O1(<<"f", "o", "l", "d", "e", "r", "O", "r", "g", "a", "n", "i", "z", "e", "d">>, Bool(TRUE)),
     O1(<<"f", "o", "l", "d", "e", "r", "O", "r", "g", "a", "n", "i", "z", "e", "d">>, Bool(FALSE))}

PasswordArgs == {Undefined, O1(<<"e", "n", "c", "r", "y", "p", "t", "i", "o", "n", "P", "a", "s", "s", "w", "o", "r", "d">>, Str(<<"p", "w">>))}

PerPages == {Undefined, Null, Num(0), Num(1), Num(25), Num(100), Num(101), Half(1),
             Num(-1), Str(<<"5", "0">>), Str(<<"a", "b", "c">>), Str(<<>>)}

PageNumbers == {Undefined, Num(2), Str(<<"x">>)}

IdLists == {Undefined, Arr(<<>>), Arr(<<Num(1)>>), Arr(<<Num(1), Num(2)>>),
            Arr(<<Str(<<"a", "b", "c">>)>>), Arr(<<Num(1), Null>>)}

ValueLists == {Undefined, Arr(<<Str(<<"a">>)>>), Arr(<<Str(<<"a">>), Str(<<"b", " ", "c">>)>>)}

GetSubmissionsArgs ==
    {Undefined}
    \cup {O1(<<"m", "i", "n", "T", "i", "m", "e">>, t) : t \in Times}
    \cup {O1(<<"m", "a", "x", "T", "i", "m", "e">>, t) : t \in Times}
    \cup {O2(<<"m", "i", "n", "T", "i", "m", "e">>, T_ISO, <<"m", "a", "x", "T", "i", "m", "e">>, t) : t \in Times}
    \cup {O2(<<"p", "e", "r", "P", "a", "g", "e">>, p, <<"p", "a", "g", "e", "N", "u", "m", "b", "e", "r">>, n) : p \in PerPages, n \in PageNumbers}
    \cup {O2(<<"s", "e", "a", "r", "c", "h", "F", "i", "e", "l", "d", "I", "d", "s">>, i, <<"s", "e", "a", "r", "c", "h", "F", "i", "e", "l", "d", "V", "a", "l", "u", "e", "s">>, v) : i \in IdLists, v \in ValueLists}
    \cup {O3(<<"s", "o", "r", "t">>, s, <<"d", "a", "t", "a">>, d, <<"e", "n", "c", "r", "y", "p", "t", "i", "o", "n", "P", "a", "s", "s", "w", "o", "r", "d">>, Str(<<"p", "w">>)) :
             s \in {Str(<<"a", "s", "c">>), Str(<<"D", "E", "S", "C">>), Str(<<"u", "p">>), Num(1)}, d \in {Undefined, Bool(TRUE)}}
    \cup {O1(<<"e", "x", "p", "a", "n", "d", "D", "a", "t", "a">>, Bool(TRUE))}

SubmissionArgs ==
    {Undefined}
    \cup {O1(<<"t", "i", "m", "e", "s", "t", "a", "m", "p">>, t) : t \in Times}
    \cup {O2(<<"f", "i", "e", "l", "d", "I", "d", "s">>, i, <<"f", "i", "e", "l", "d", "V", "a", "l", "u", "e", "s">>, v) : i \in IdLists, v \in ValueLists}
    \cup {O3(<<"u", "s", "e", "r", "A", "g", "e", "n", "t">>, Str(<<"U", "A", " ", "1">>), <<"i", "p", "A", "d", "d", "r", "e", "s", "s">>, Str(<<"1", "0", ".", "0", ".", "0", ".", "1">>), <<"r", "e", "a", "d">>, r) :
             r \in {Undefined, Bool(TRUE)}}
    \cup {O1(<<"p", "a", "y", "m", "e", "n", "t", "S", "t", "a", "t", "u", "s">>, Str(<<"p", "a", "i", "d">>))}

CreateFieldArgs ==
    {Undefined}
    \cup {O1(<<"f", "i", "e", "l", "d", "T", "y", "p", "e">>, f) : f \in {Str(<<"t", "e", "x", "t">>), Str(<<"r", "a", "d", "i", "o">>), Str(<<"b", "o", "g", "u", "s">>), Num(1)}}
    \cup {O3(<<"f", "i", "e", "l", "d", "T", "y", "p", "e">>, Str(<<"r", "a", "d", "i", "o">>), <<"l", "a", "b", "e", "l">>, Str(<<"M", "y", " ", "l", "a", "b", "e", "l">>), <<"o", "p", "t", "i", "o", "n", "s">>, o) :
             o \in {Undefined, Arr(<<Str(<<"a">>), Str(<<"b">>)>>)}}
    \cup {O3(<<"f", "i", "e", "l", "d", "T", "y", "p", "e">>, Str(<<"t", "e", "x", "t">>), <<"f", "i", "e", "l", "d", "S", "p", "e", "c", "i", "f", "i", "c", "A", "t", "t", "r", "i", "b", "u", "t", "e", "s">>,
             O2(<<"r", "o", "w", "s">>, Num(2), <<"h", "i", "n", "t">>, Str(<<"a", " ", "b">>)), <<"r", "e", "q", "u", "i", "r", "e", "d">>, r) :
             r \in {Undefined, Bool(TRUE)}}
    \cup {O3(<<"f", "i", "e", "l", "d", "T", "y", "p", "e">>, Str(<<"s", "e", "l", "e", "c", "t">>), <<"h", "i", "d", "e", "L", "a", "b", "e", "l">>, Bool(TRUE), <<"c", "o", "l", "u", "m", "n", "S", "p", "a", "n">>, Num(2))}

Statuses == {199, 200, 299, 300, 500}

Bodies ==
    {<<"{", Q("forms"), ":", "[", "{", Q("id"), ":", "0", "}", "]", "}">>,
     <<"{", Q("status"), ":", Q("error"), ",", Q("message"), ":", Q("x"), "}">>,
     <<"{", Q("status"), ":", Q("ok"), "}">>,
     <<"{", "}">>,
     <<"null">>,
     <<"{", Q("status"), ":">>,
     <<>>}

TransportErrors ==
    {ErrorOf("ECONNREFUSED", <<"c", "o", "n", "n", "e", "c", "t", " ", "E", "C", "O", "N", "N", "R", "E", "F", "U", "S", "E", "D">>),
     ErrorOf("ETIMEDOUT", <<"c", "o", "n", "n", "e", "c", "t", " ", "E", "T", "I", "M", "E", "D", "O", "U", "T">>)}

(***************************************************************************)
(* The calls                                                               *)
(***************************************************************************)
Init ==
    /\ tzOffset \in TimeZones
    /\ pc = "idle"
    /\ call = Null
    /\ opened = 0
    /\ sent = Null
    /\ res = Null
    /\ emitted = Null
    /\ wire = <<>>
    /\ str = <<>>
    /\ reqResults = <<>>
    /\ results = <<>>
    /\ logged = <<>>
    /\ failure = Null

\* One call of a method: `outcome` is what the method's code did with the
\* inputs, either a throw back to the caller or one request opened.
Entered(method, callback, inputs, outcome) ==
    [call |-> [method |-> method, callback |-> callback, inputs |-> inputs],
     pc |-> IF outcome.throws THEN "thrown" ELSE "pending",
     failure |-> IF outcome.throws
                 THEN [where |-> "call", error |-> outcome.error,
                       message |-> outcome.message]
                 ELSE failure,
     opened |-> IF outcome.throws THEN opened ELSE opened + 1,
     sent |-> IF outcome.throws THEN sent ELSE outcome]

CallRequest ==
    /\ pc = "idle"
    /\ \E endpoint \in Endpoints, verb \in Verbs, args \in RequestArgs, callback \in RequestCallbacks :
        \E e \in {Entered("request", callback, [endpoint |-> endpoint, verb |-> verb, args |-> args],
                          request(endpoint, verb, args, callback))} :
            /\ pc' = e.pc
            /\ call' = e.call
            /\ failure' = e.failure
            /\ opened' = e.opened
            /\ sent' = e.sent
    /\ UNCHANGED <<tzOffset, res, emitted, wire, str, reqResults, results, logged>>

CallGetForms ==
    /\ pc = "idle"
    /\ \E args \in GetFormsArgs, callback \in Callbacks :
        \E e \in {Entered("getForms", callback, [args |-> args],
                          getForms(args, callback))} :
            /\ pc' = e.pc
            /\ call' = e.call
            /\ failure' = e.failure
            /\ opened' = e.opened
            /\ sent' = e.sent
    /\ UNCHANGED <<tzOffset, res, emitted, wire, str, reqResults, results, logged>>

CallGetFormDetails ==
    /\ pc = "idle"
    /\ \E formId \in Ids, callback \in Callbacks :
        \E e \in {Entered("getFormDetails", callback, [id |-> formId],
                          getFormDetails(formId, callback))} :
            /\ pc' = e.pc
            /\ call' = e.call
            /\ failure' = e.failure
            /\ opened' = e.opened
            /\ sent' = e.sent
    /\ UNCHANGED <<tzOffset, res, emitted, wire, str, reqResults, results, logged>>

CallCopyForm ==
    /\ pc = "idle"
    /\ \E formId \in Ids, callback \in Callbacks :
        \E e \in {Entered("copyForm", callback, [id |-> formId],
                          copyForm(formId, callback))} :
            /\ pc' = e.pc
            /\ call' = e.call
            /\ failure' = e.failure
            /\ opened' = e.opened
            /\ sent' = e.sent
    /\ UNCHANGED <<tzOffset, res, emitted, wire, str, reqResults, results, logged>>

CallGetSubmissions ==
    /\ pc = "idle"
    /\ \E formId \in {Num(1), Str(<<"a", "b", "c">>)}, args \in GetSubmissionsArgs, callback \in Callbacks :
        \E e \in {Entered("getSubmissions", callback, [id |-> formId, args |-> args],
                          getSubmissions(formId, args, callback))} :
            /\ pc' = e.pc
            /\ call' = e.call
            /\ failure' = e.failure
            /\ opened' = e.opened
            /\ sent' = e.sent
    /\ UNCHANGED <<tzOffset, res, emitted, wire, str, reqResults, results, logged>>

CallSubmitForm ==
    /\ pc = "idle"
    /\ \E formId \in {Num(1), Undefined}, args \in SubmissionArgs, callback \in Callbacks :
        \E e \in {Entered("submitForm", callback, [id |-> formId, args |-> args],
                          submitForm(formId, args, callback))} :
            /\ pc' = e.pc
            /\ call' = e.call
            /\ failure' = e.failure
            /\ opened' = e.opened
            /\ sent' = e.sent
    /\ UNCHANGED <<tzOffset, res, emitted, wire, str, reqResults, results, logged>>

CallGetSubmissionDetails ==
    /\ pc = "idle"
    /\ \E submissionId \in Ids, args \in PasswordArgs, callback \in Callbacks :
        \E e \in {Entered("getSubmissionDetails", callback, [id |-> submissionId, args |-> args],
                          getSubmissionDetails(submissionId, args, callback))} :
            /\ pc' = e.pc
            /\ call' = e.call
            /\ failure' = e.failure
            /\ opened' = e.opened
            /\ sent' = e.sent
    /\ UNCHANGED <<tzOffset, res, emitted, wire, str, reqResults, results, logged>>

CallEditSubmissionData ==
    /\ pc = "idle"
    /\ \E submissionId \in {Num(1), Str(<<"a", "b", "c">>)}, args \in SubmissionArgs, callback \in Callbacks :
        \E e \in {Entered("editSubmissionData", callback, [id |-> submissionId, args |-> args],
                          editSubmissionData(submissionId, args, callback))} :
            /\ pc' = e.pc
            /\ call' = e.call
            /\ failure' = e.failure
            /\ opened' = e.opened
            /\ sent' = e.sent
    /\ UNCHANGED <<tzOffset, res, emitted, wire, str, reqResults, results, logged>>

CallDeleteSubmission ==
    /\ pc = "idle"
    /\ \E submissionId \in Ids, callback \in Callbacks :
        \E e \in {Entered("deleteSubmission", callback, [id |-> submissionId],
                          deleteSubmission(submissionId, callback))} :
            /\ pc' = e.pc
            /\ call' = e.call
            /\ failure' = e.failure
            /\ opened' = e.opened
            /\ sent' = e.sent
    /\ UNCHANGED <<tzOffset, res, emitted, wire, str, reqResults, results, logged>>

CallCreateField ==
    /\ pc = "idle"
    /\ \E formId \in {Num(1), Null}, args \in CreateFieldArgs, callback \in Callbacks :
        \E e \in {Entered("createField", callback, [id |-> formId, args |-> args],
                          createField(formId, args, callback))} :
            /\ pc' = e.pc
            /\ call' = e.call
            /\ failure' = e.failure
            /\ opened' = e.opened
            /\ sent' = e.sent
    /\ UNCHANGED <<tzOffset, res, emitted, wire, str, reqResults, results, logged>>

CallGetFields ==
    /\ pc = "idle"
    /\ \E formId \in Ids, callback \in Callbacks :
        \E e \in {Entered("getFields", callback, [id |-> formId],
                          getFields(formId, callback))} :
            /\ pc' = e.pc
            /\ call' = e.call
            /\ failure' = e.failure
            /\ opened' = e.opened
            /\ sent' = e.sent
    /\ UNCHANGED <<tzOffset, res, emitted, wire, str, reqResults, results, logged>>

(***************************************************************************)
(* The events of the request opened (index.js 136-161)                     *)
(***************************************************************************)
\* request calls callback(data, err): the pair goes to the function the
\* method handed to request; an exception thrown there is uncaught
Deliver(data, err, nextPc) ==
    LET r == OnResult(call.method, call.callback, data, err)
    IN  /\ reqResults' = Append(reqResults, <<data, err>>)
        /\ results' = results \o r.passed
        /\ logged' = logged \o r.logged
        /\ IF r.threw
           THEN /\ pc' = "crashed"
                /\ failure' = [where |-> "handler", error |-> "TypeError",
                               message |-> "Cannot read property 'forms' of null"]
           ELSE /\ pc' = nextPc
                /\ UNCHANGED failure

\* the call has returned and the request has left: its arguments and the
\* request in flight are no longer observed
Returned ==
    /\ call' = [call EXCEPT !.inputs = Null]
    /\ sent' = Null

\* the response callback (index.js 136-152)
Response(statusCode, body) ==
    /\ pc = "pending"
    /\ Returned
    /\ res' = [statusCode |-> statusCode]
    /\ wire' = body
    /\ str' = <<>>
    /\ IF statusCode < 200 \/ statusCode >= 300
       THEN Deliver(Null, ErrorOf("Error", STATUS_FAILED \o NatToStr(statusCode)), "failed")
       ELSE /\ pc' = "receiving"
            /\ UNCHANGED <<reqResults, results, logged, failure>>
    /\ UNCHANGED <<tzOffset, opened, emitted>>

\* res.on('data') (index.js 144-146)
Data(n) ==
    /\ pc = "receiving"
    /\ n <= Len(wire)
    /\ str' = str \o SubSeq(wire, 1, n)
    /\ wire' = SubSeq(wire, n + 1, Len(wire))
    /\ UNCHANGED <<tzOffset, pc, call, opened, sent, res, emitted, reqResults,
                   results, logged, failure>>

\* res.on('end') (index.js 148-151)
End ==
    /\ pc = "receiving"
    /\ wire = <<>>
    /\ LET response == JSONParse(str)
       IN  IF response.ok
           THEN Deliver(response.val, Undefined, "ended")
           ELSE /\ pc' = "crashed"
                /\ failure' = [where |-> "handler", error |-> "SyntaxError",
                               message |-> "Unexpected end of JSON input"]
                /\ UNCHANGED <<reqResults, results, logged>>
    /\ UNCHANGED <<tzOffset, call, opened, sent, res, emitted, wire, str>>

\* an 'error' handler that opens the request again instead of reporting
ReqErrorRetry(e) ==
    /\ pc \in {"pending", "failed", "receiving"}
    /\ emitted' = e
    /\ pc' = "pending"
    /\ opened' = opened + 1
    /\ UNCHANGED <<tzOffset, call, sent, res, wire, str, reqResults, results,
                   logged, failure>>

\* req.on('error') (index.js 159-161): the transport fails before the
\* response, after a response that was not read, or while the body arrives
ReqError(e) ==
    /\ pc \in {"pending", "failed", "receiving"}
    /\ Returned
    /\ emitted' = e
    /\ Deliver(Null, e, "errored")
    /\ UNCHANGED <<tzOffset, opened, res, wire, str>>

Next ==
    \/ CallRequest
    \/ CallGetForms
    \/ CallGetFormDetails
    \/ CallCopyForm
    \/ CallGetSubmissions
    \/ CallSubmitForm
    \/ CallGetSubmissionDetails
    \/ CallEditSubmissionData
    \/ CallDeleteSubmission
    \/ CallCreateField
    \/ CallGetFields
    \/ \E statusCode \in Statuses, body \in Bodies : Response(statusCode, body)
    \/ \E n \in 1..MaxChunk : Data(n)
    \/ End
    \/ \E e \in TransportErrors : ReqError(e)

Spec == Init /\ [][Next]_vars
(***************************************************************************)
(* Properties                                                              *)
(***************************************************************************)
\* the arguments of the call are in view: it has just thrown or just opened
\* its request
InCall == pc \in {"thrown", "pending"}

\* the caller gave a callback (request does not open without one)
HasCallback == call.method = "request" \/ Truthy(call.callback)

Last(q) == q[Len(q)]

RejectedBeforeAnyRequest ==
    /\ pc = "thrown"
    /\ failure.where = "call"
    /\ opened = 0
    /\ sent = Null
    /\ reqResults = <<>>
    /\ results = <<>>

\* C1: every result passed to the caller's callback, by request and by every
\* resource method, has exactly one of data and error: never both non-null,
\* never both null or absent.
C1_ResultIsDataOrError ==
    \A i \in 1..Len(results) : IsNullish(results[i][1]) # IsNullish(results[i][2])

C2_IsErrorPayload(d) == d.t = "object" /\ GetProp(d, STATUS) = Str(ERROR)

\* C2: for every resource method, a 2xx response whose parsed payload has
\* status "error" reaches the caller's callback as (null, the full payload).
C2_ApiErrorIsFailure ==
    (pc # "idle" /\ call.method # "request" /\ Truthy(call.callback)) =>
        \A i \in 1..Len(reqResults) :
            C2_IsErrorPayload(reqResults[i][1]) =>
                /\ i <= Len(results)
                /\ results[i] = <<Null, reqResults[i][1]>>

\* C3: a response whose status is outside [200,300) gives the caller's
\* callback a failure that carries the status code and no data, and the body
\* is neither read nor delivered.
C3_StatusFailure ==
    (res # Null /\ (res.statusCode < 200 \/ res.statusCode >= 300) /\ HasCallback) =>
        /\ Len(results) >= 1
        /\ results[1] = <<Null, ErrorOf("Error", STATUS_FAILED \o NatToStr(res.statusCode))>>
        /\ \A i \in 1..Len(results) : IsNullish(results[i][1])
        /\ str = <<>>

\* C4: when a 2xx response has ended with a body that is not JSON, no
\* exception escapes and the callback has been given (null, an error).
C4_ParseFailureDelivered ==
    (/\ pc \in {"ended", "crashed"}
     /\ res # Null /\ res.statusCode >= 200 /\ res.statusCode < 300
     /\ wire = <<>>
     /\ ~JSONParse(str).ok) =>
        /\ failure = Null
        /\ HasCallback =>
            /\ Len(results) >= 1
            /\ IsNullish(Last(results)[1])
            /\ Last(results)[2].t = "error"

\* C5: once the transport has emitted an error on the request, request's
\* callback has been called with (null, that error), and the one request
\* opened is the only one: nothing is retried.
C5_TransportErrorDelivered ==
    /\ opened <= 1
    /\ emitted # Null =>
        /\ pc # "pending"
        /\ Len(reqResults) >= 1
        /\ Last(reqResults) = <<Null, emitted>>

C5_Witness ==
    /\ pc = "errored"
    /\ emitted \in TransportErrors
    /\ opened = 1
    /\ results = <<<<Null, emitted>>>>

C6_EmptyEndpoint(v) == IsNullish(v) \/ (v.t = "string" /\ v.s = <<>>)

C6_SameIgnoringCase(a, b) ==
    /\ Len(a) = Len(b)
    /\ \A i \in 1..Len(a) :
          \/ a[i] = b[i]
          \/ \E k \in 1..26 : {a[i], b[i]} = {LowerCase[k], UpperCase[k]}

\* the verb is absent (GET is used) or is GET, PUT, POST or DELETE in any case
C6_VerbAllowed(v) ==
    \/ ~Truthy(v)
    \/ /\ v.t = "string"
       /\ \E w \in {GET, PUT, POST, DELETE} : C6_SameIgnoringCase(v.s, w)

\* C6: request called with an empty endpoint, a callback that is no
\* function or a verb outside GET, PUT, POST, DELETE throws at once: no
\* request is opened and the callback is not called.
C6_InvalidRequestThrows ==
    (/\ InCall
     /\ call.method = "request"
     /\ \/ C6_EmptyEndpoint(call.inputs.endpoint)
        \/ TypeOf(call.callback) # "function"
        \/ ~C6_VerbAllowed(call.inputs.verb)) => RejectedBeforeAnyRequest

C6_Witness ==
    /\ pc = "thrown"
    /\ call.method = "request"
    /\ call.inputs.endpoint = Str(<<"f", "o", "r", "m", ".", "j", "s", "o", "n">>)
    /\ call.callback = Func
    /\ call.inputs.verb = Str(<<"P", "A", "T", "C", "H">>)
    /\ opened = 0

\* a number, or a string of decimal digits
C7_Numeric(v) == v.t = "number" \/ (v.t = "string" /\ AllDigits(v.s))

C7_List(args, name) == OrDefault(Arg(args, name), Arr(<<>>)).e

C7_BadPairs(args, ids, values) ==
    \/ Len(C7_List(args, ids)) # Len(C7_List(args, values))
    \/ \E i \in 1..Len(C7_List(args, ids)) : ~C7_Numeric(C7_List(args, ids)[i])

\* C7: a resource method called with id and value arrays of different
\* lengths, or with a form, submission or field ID that is not numeric,
\* throws at once and opens no request.
C7_BadIdsRejected ==
    (/\ InCall
     /\ \/ /\ call.method \notin {"request", "getForms"}
           /\ ~C7_Numeric(call.inputs.id)
        \/ /\ call.method \in {"submitForm", "editSubmissionData"}
           /\ C7_BadPairs(call.inputs.args, <<"f", "i", "e", "l", "d", "I", "d", "s">>, <<"f", "i", "e", "l", "d", "V", "a", "l", "u", "e", "s">>)
        \/ /\ call.method = "getSubmissions"
           /\ C7_BadPairs(call.inputs.args, <<"s", "e", "a", "r", "c", "h", "F", "i", "e", "l", "d", "I", "d", "s">>, <<"s", "e", "a", "r", "c", "h", "F", "i", "e", "l", "d", "V", "a", "l", "u", "e", "s">>))
    => RejectedBeforeAnyRequest

\* YYYY-MM-DD HH:MM:SS with one or two digits in each field after the year
C8_Canonical(s) ==
    LET n1 == DigitRun(s, 1)
        n2 == DigitRun(s, 6)
        n3 == DigitRun(s, 7 + n2)
        n4 == DigitRun(s, 8 + n2 + n3)
        n5 == DigitRun(s, 9 + n2 + n3 + n4)
        n6 == DigitRun(s, 10 + n2 + n3 + n4 + n5)
    IN  /\ n1 = 4 /\ {n2, n3, n4, n5, n6} \subseteq {1, 2}
        /\ CharAt(s, 5) = "-"
        /\ CharAt(s, 6 + n2) = "-"
        /\ IsSpace(CharAt(s, 7 + n2 + n3))
        /\ CharAt(s, 8 + n2 + n3 + n4) = ":"
        /\ CharAt(s, 9 + n2 + n3 + n4 + n5) = ":"
        /\ Len(s) = 9 + n2 + n3 + n4 + n5 + n6

\* the value was supplied and the checks required of it fail
C8_Fails(v, both) ==
    /\ Truthy(v)
    /\ \/ IsNullish(strtotime(v))
       \/ both /\ ~C8_Canonical(v.s)

\* C8 as claimed: every method that takes a timestamp (submitForm,
\* editSubmissionData: timestamp; getSubmissions: minTime, maxTime) applies the
\* parse check and the format check, and rejects before any request if either
\* fails.
C8_BothChecksEverywhere ==
    (/\ InCall
     /\ \/ /\ call.method \in {"submitForm", "editSubmissionData"}
           /\ C8_Fails(Arg(call.inputs.args, <<"t", "i", "m", "e", "s", "t", "a", "m", "p">>), TRUE)
        \/ /\ call.method = "getSubmissions"
           /\ \/ C8_Fails(Arg(call.inputs.args, <<"m", "i", "n", "T", "i", "m", "e">>), TRUE)
              \/ C8_Fails(Arg(call.inputs.args, <<"m", "a", "x", "T", "i", "m", "e">>), TRUE))
    => RejectedBeforeAnyRequest

\* C8 amended: submitForm and editSubmissionData apply both checks to
\* timestamp; getSubmissions applies only the parse check to minTime and
\* maxTime; each rejects before any request when a check it applies fails.
C8_ChecksApplied ==
    (/\ InCall
     /\ \/ /\ call.method \in {"submitForm", "editSubmissionData"}
           /\ C8_Fails(Arg(call.inputs.args, <<"t", "i", "m", "e", "s", "t", "a", "m", "p">>), TRUE)
        \/ /\ call.method = "getSubmissions"
           /\ \/ C8_Fails(Arg(call.inputs.args, <<"m", "i", "n", "T", "i", "m", "e">>), FALSE)
              \/ C8_Fails(Arg(call.inputs.args, <<"m", "a", "x", "T", "i", "m", "e">>), FALSE))
    => RejectedBeforeAnyRequest

\* submitForm turned away a timestamp that parses but is not in the format
C8_Witness ==
    /\ pc = "thrown"
    /\ call.method = "submitForm"
    /\ call.inputs.id = Num(1)
    /\ Arg(call.inputs.args, <<"t", "i", "m", "e", "s", "t", "a", "m", "p">>) = T_SLASH
    /\ ~IsNullish(strtotime(T_SLASH))
    /\ opened = 0

\* only perPage and pageNumber are given, and pageNumber is a number if given
C9_OnlyPaging(args) ==
    /\ args.t = "object"
    /\ \A i \in 1..Len(args.f) : args.f[i][1] \in {<<"p", "e", "r", "P", "a", "g", "e">>, <<"p", "a", "g", "e", "N", "u", "m", "b", "e", "r">>}
    /\ Arg(args, <<"p", "a", "g", "e", "N", "u", "m", "b", "e", "r">>).t \in {"undefined", "number"}

\* C9: getSubmissions rejects a numeric perPage outside [1,100] (0 and 101
\* among them) before any request, accepts 1 and 100 and sends them as
\* per_page, and sends 25 when perPage is not given.
C9_PerPageRange ==
    (InCall /\ call.method = "getSubmissions") =>
        LET perPage == Arg(call.inputs.args, <<"p", "e", "r", "P", "a", "g", "e">>)
        IN  /\ (perPage.t = "number" /\ (perPage.h < 2 * 1 \/ perPage.h > 2 * 100))
                   => RejectedBeforeAnyRequest
            /\ (/\ perPage \in {Num(1), Num(100), Undefined}
                /\ call.inputs.id = Num(1)
                /\ C9_OnlyPaging(call.inputs.args)) =>
                   /\ pc = "pending"
                   /\ GetProp(sent.args, <<"p", "e", "r", "_", "p", "a", "g", "e">>) =
                         (IF perPage = Undefined THEN Num(25) ELSE perPage)

C10_Scalar(v) == v.t \in {"string", "number", "boolean"}

\* every value is a scalar or a flat mapping of scalars
C10_Flat(m) ==
    /\ m.t = "object"
    /\ \A i \in 1..Len(m.f) :
          \/ C10_Scalar(m.f[i][2])
          \/ /\ m.f[i][2].t \in {"object", "array"}
             /\ \A j \in 1..Len(ForIn(m.f[i][2])) : C10_Scalar(ForIn(m.f[i][2])[j][2])

\* the segments of one entry: key=value, or key[subkey]=value per inner entry
C10_Segments(key, v) ==
    IF C10_Scalar(v) THEN <<key \o <<"=">> \o ToStr(v)>>
    ELSE [j \in 1..Len(ForIn(v)) |->
             key \o <<"[">> \o ForIn(v)[j][1] \o <<"]", "=">> \o ToStr(ForIn(v)[j][2])]

RECURSIVE C10_Concat(_)
C10_Concat(ss) == IF ss = <<>> THEN <<>> ELSE Head(ss) \o C10_Concat(Tail(ss))

C10_Expected(m) ==
    encodeURI(JoinStr(C10_Concat([i \in 1..Len(m.f) |->
                                     C10_Segments(m.f[i][1], m.f[i][2])]), <<"&">>))

\* C10: for a mapping of scalars and flat mappings of scalars, the encoded
\* body has, in iteration order, key=value per scalar entry and
\* key[subkey]=value per inner entry, joined with & and URI-encoded once.
C10_QueryString ==
    (pc = "pending" /\ Truthy(sent.args) /\ C10_Flat(sent.args)) =>
        LET expected == C10_Expected(sent.args)
        IN  sent.written = (IF expected = <<>> THEN Null ELSE Str(expected))

\* a request went out whose mapping has a scalar entry and a nested mapping
\* with two inner entries, with a character that encodeURI escapes
C10_Witness ==
    /\ pc = "pending"
    /\ Truthy(sent.args)
    /\ C10_Flat(sent.args)
    /\ \E i, j \in 1..Len(sent.args.f) :
          /\ C10_Scalar(sent.args.f[i][2])
          /\ ~C10_Scalar(sent.args.f[j][2])
          /\ Len(ForIn(sent.args.f[j][2])) = 2
    /\ sent.written # Null
    /\ \E k \in 1..Len(sent.written.s) : sent.written.s[k] = "%"

C11_Count(s, c) == Cardinality({i \in 1..Len(s) : s[i] = c})

RECURSIVE C11_SegmentCount(_)
C11_SegmentCount(entries) ==
    IF entries = <<>> THEN 0
    ELSE (IF C10_Scalar(Head(entries)[2]) THEN 1 ELSE Len(ForIn(Head(entries)[2])))
         + C11_SegmentCount(Tail(entries))

\* C11: in the encoded body of a mapping of scalars and flat mappings of
\* scalars, the only unescaped = and & are the ones the encoder put in: one =
\* per segment and one & between neighbouring segments, none from a value.
C11_SeparatorsOnly ==
    (/\ pc = "pending"
     /\ Truthy(sent.args)
     /\ C10_Flat(sent.args)
     /\ sent.written # Null) =>
        LET n == C11_SegmentCount(sent.args.f)
        IN  /\ C11_Count(sent.written.s, "=") = n
            /\ C11_Count(sent.written.s, "&") = n - 1

C12_TimestampMethods == {"submitForm", "editSubmissionData", "getSubmissions"}

\* the timestamps the call supplies
C12_Supplied ==
    {v \in {Arg(call.inputs.args, k) :
               k \in (IF call.method = "getSubmissions"
                      THEN {<<"m", "i", "n", "T", "i", "m", "e">>, <<"m", "a", "x", "T", "i", "m", "e">>}
                      ELSE {<<"t", "i", "m", "e", "s", "t", "a", "m", "p">>})} : Truthy(v)}

\* the strings that name no date and time: a word, a thirteenth month
C12_Unparseable == {T_TEXT, T_MONTH13}

\* seconds from 1970-01-01 00:00:00 UTC to the instant the string names; a
\* string without a zone names a local time
C12_Seconds(t) ==
    LET local == CASE t \in {T_CANON, T_SHORT, T_SLASH, T_ISO} -> 1 * 86400 + 9 * 3600
                   [] t = T_EPOCH -> 0
                   [] t = T_BEFORE -> 0 - 1
    IN  IF t = T_ISO THEN local ELSE local - 60 * tzOffset

\* the call gives nothing but timestamps, in the format the method asks for
C12_OnlyTimestamps ==
    /\ call.inputs.id = Num(1)
    /\ call.inputs.args.t = "object"
    /\ \A i \in 1..Len(call.inputs.args.f) :
          /\ call.inputs.args.f[i][2] \in Times
          /\ call.inputs.args.f[i][1] \in
                (IF call.method = "getSubmissions"
                 THEN {<<"m", "i", "n", "T", "i", "m", "e">>, <<"m", "a", "x", "T", "i", "m", "e">>}
                 ELSE {<<"t", "i", "m", "e", "s", "t", "a", "m", "p">>})
          /\ call.method = "getSubmissions" \/ C8_Canonical(call.inputs.args.f[i][2].s)

\* a method rejects when strtotime gives null, and only then
C12_RejectsExactlyInvalid ==
    /\ (\E t \in C12_Supplied : strtotime(t) = Null) => RejectedBeforeAnyRequest
    /\ (C12_OnlyTimestamps /\ \A t \in C12_Supplied : strtotime(t) # Null)
           => pc = "pending"

\* C12 as claimed: strtotime gives null for "1970-01-01 00:00:00", for a date
\* before the epoch and for an unparseable string, gives the non-negative
\* whole seconds since the epoch for a date after it, and a resource method
\* rejects exactly on null.
C12_EpochIsInvalid ==
    (InCall /\ call.method \in C12_TimestampMethods) =>
        /\ \A t \in C12_Supplied :
              IF \/ t \in C12_Unparseable
                 \/ t = T_EPOCH
                 \/ C12_Seconds(t) < 0
              THEN strtotime(t) = Null
              ELSE strtotime(t) = Num(C12_Seconds(t))
        /\ C12_RejectsExactlyInvalid

\* C12 amended: strtotime gives null for an unparseable string and for a
\* string naming an instant before 1970-01-01 00:00:00 UTC, and the
\* non-negative whole seconds since the epoch for every other date string, 0
\* for the epoch itself; a resource method rejects exactly on null.
C12_NegativeIsInvalid ==
    (InCall /\ call.method \in C12_TimestampMethods) =>
        /\ \A t \in C12_Supplied :
              IF t \in C12_Unparseable \/ C12_Seconds(t) < 0
              THEN strtotime(t) = Null
              ELSE strtotime(t) = Num(C12_Seconds(t))
        /\ C12_RejectsExactlyInvalid

\* submitForm sent a timestamp naming the epoch itself, which strtotime
\* gave 0 seconds
C12_Witness ==
    /\ pc = "pending"
    /\ call.method = "submitForm"
    /\ tzOffset = 0
    /\ Arg(call.inputs.args, <<"t", "i", "m", "e", "s", "t", "a", "m", "p">>) = T_EPOCH
    /\ strtotime(T_EPOCH) = Num(0)
    /\ GetProp(sent.args, <<"t", "i", "m", "e", "s", "t", "a", "m", "p">>) = T_EPOCH

\* the payload of the response, once its body has ended
C13_Payload == JSONParse(str).val

\* C13: getForms sends folders=1 when folderOrganized is set and folders=0
\* when it is not, and on a successful response, one whose payload carries
\* forms and no status "error", calls the caller's callback once with that
\* forms list as data and no error.
C13_GetFormsSuccess ==
    (pc # "idle" /\ call.method = "getForms") =>
        /\ pc = "pending" =>
              /\ GetProp(sent.args, <<"f", "o", "l", "d", "e", "r", "s">>) =
                    (IF Truthy(Arg(call.inputs.args, <<"f", "o", "l", "d", "e", "r", "O", "r", "g", "a", "n", "i", "z", "e", "d">>))
                     THEN Num(1) ELSE Num(0))
              /\ sent.written =
                    (IF Truthy(Arg(call.inputs.args, <<"f", "o", "l", "d", "e", "r", "O", "r", "g", "a", "n", "i", "z", "e", "d">>))
                     THEN Str(<<"f", "o", "l", "d", "e", "r", "s", "=", "1">>) ELSE Str(<<"f", "o", "l", "d", "e", "r", "s", "=", "0">>))
        /\ (/\ pc = "ended"
            /\ Truthy(call.callback)
            /\ C13_Payload.t = "object"
            /\ HasProp(C13_Payload, FORMS)
            /\ GetProp(C13_Payload, STATUS) # Str(ERROR)) =>
              results = <<<<GetProp(C13_Payload, FORMS), Undefined>>>>

\* the caller's callback has been given the array of forms of a 200 response
C13_Witness ==
    /\ pc = "ended"
    /\ call.method = "getForms"
    /\ call.callback = Func
    /\ res.statusCode = 200
    /\ Len(results) = 1
    /\ results[1][1].t = "array"
    /\ Len(results[1][1].e) = 1
    /\ results[1][1] = GetProp(C13_Payload, FORMS)
    /\ results[1][2] = Undefined

\* C14: in a call of request that passed validation the callback is called
\* at most once, whatever the order of the response, data, end and error
\* events.
C14_CallbackAtMostOnce ==
    (pc # "idle" /\ call.method = "request") =>
        /\ Len(reqResults) <= 1
        /\ Len(results) <= 1

C15_IsPrefix(p, s) == Len(p) <= Len(s) /\ SubSeq(s, 1, Len(p)) = p

\* the values getSubmissions sends under its search_ parameters
C15_SearchValues ==
    {sent.args.f[j][2] : j \in {k \in 1..Len(sent.args.f) :
                                  C15_IsPrefix(<<"s", "e", "a", "r", "c", "h", "_">>, sent.args.f[k][1])}}

\* C15: getSubmissions sends, for every validated search pair, both the
\* field id and the value: the search parameters carry every id and every
\* value, two parameters for each pair.
C15_SearchPairsSent ==
    (pc = "pending" /\ call.method = "getSubmissions") =>
        LET ids == C7_List(call.inputs.args, <<"s", "e", "a", "r", "c", "h", "F", "i", "e", "l", "d", "I", "d", "s">>)
            values == C7_List(call.inputs.args, <<"s", "e", "a", "r", "c", "h", "F", "i", "e", "l", "d", "V", "a", "l", "u", "e", "s">>)
        IN  /\ \A i \in 1..Len(ids) :
                  /\ ids[i] \in C15_SearchValues
                  /\ values[i] \in C15_SearchValues
            /\ Cardinality({k \in 1..Len(sent.args.f) :
                               C15_IsPrefix(<<"s", "e", "a", "r", "c", "h", "_">>, sent.args.f[k][1])})
                  = 2 * Len(ids)
====
